---- MODULE Spec2Model ----
(***************************************************************************)
(* ftw.js: the file tree Walker of src/ftw.js.  A Walker reads the root    *)
(* directories with fs.readdir, inspects every listed entry with fs.stat,  *)
(* queues the subdirectories it finds and walks the queue, emitting one    *)
(* event per entry, one per failed operation and 'done' at the end.        *)
(*                                                                         *)
(* Every fs callback runs to completion before the next one starts (node's *)
(* single threaded event loop): one action per callback.  The closures of  *)
(* the source (the pending counters, the queues, the callbacks) are the    *)
(* records of levels and frames.                                           *)
(*                                                                         *)
(* The repository holds a second version of the file (src/unnamed/         *)
(* part_003), which differs in one statement of _walk: Spec is ftw.js,     *)
(* SpecLib the second version.  A third version (src/unnamed/part_002)     *)
(* hands the depth from call to call as a parameter and leaves this.depth  *)
(* alone: SpecParam.  SpecUnit applies the constructor and _emitTypes to   *)
(* inputs of their own.                                                    *)
(***************************************************************************)
EXTENDS Integers, Sequences, FiniteSets, Bags, TLC

\* ------------------------------------------------------------------ bounds
\* the longest root list handed to walk()
MaxRoots == 2
\* the largest options.depth given to the constructor
MaxDepthOpt == 2
\* the number of fs operations that fail although the path is there
MaxFail == 1

\* the default of this.depth
DefaultDepth == 10

\* ------------------------------------------------------- the file system
\* Paths are sequences of names.  Every tree of a session is a part of this
\* skeleton: the entries named "f" are regular files, the others directories.
Skeleton ==
    { <<"r">>,
      <<"r", "f">>, <<"r", "A">>, <<"r", "B">>,
      <<"r", "A", "f">>, <<"r", "A", "A1">>, <<"r", "B", "B1">>,
      <<"r", "A", "A1", "f">>, <<"r", "B", "B1", "f">> }

\* the names in the order readdir lists them
Names == <<"A", "A1", "B", "B1", "f">>

Last(p) == p[Len(p)]
Parent(p) == SubSeq(p, 1, Len(p) - 1)
DirPaths == {p \in Skeleton : Last(p) # "f"}
FilePaths == Skeleton \ DirPaths

\* the trees: an entry exists only inside an existing directory
Trees ==
    { t \in [Skeleton -> {"none", "file", "dir"}] :
        \A p \in Skeleton :
            /\ (p \in FilePaths => t[p] \in {"none", "file"})
            /\ (p \in DirPaths => t[p] \in {"none", "dir"})
            /\ (Len(p) > 1 /\ t[p] # "none" => t[Parent(p)] = "dir") }

RECURSIVE SeqsUpTo(_, _)
SeqsUpTo(S, n) ==
    IF n = 0 THEN {<<>>}
    ELSE LET shorter == SeqsUpTo(S, n - 1)
         IN shorter \cup {Append(s, x) : s \in {q \in shorter : Len(q) = n - 1}, x \in S}

\* the paths handed to walk(): the top directory and the directories in it
RootPaths == {p \in DirPaths : Len(p) <= 2}
RootLists == {s \in SeqsUpTo(RootPaths, MaxRoots) : Len(s) >= 1}

\* the options of the constructor
Options ==
    {[given |-> g, depth |-> 0] : g \in {"absent", "nodepth"}}
        \cup {[given |-> "depth", depth |-> d] : d \in (-1) .. MaxDepthOpt}

\* the versions of the file: src/ftw.js, src/unnamed/part_003 and
\* src/unnamed/part_002
Versions == {"ftw.js", "part_003", "part_002"}

\* the predicates of fs.Stats that this.types names
Predicates ==
    {"isBlockDevice", "isCharacterDevice", "isDirectory", "isFIFO", "isFile",
     "isSocket"}

\* the inputs of a unit run: the options of the constructor, and the path and
\* the fs.Stats (the predicates that hold) of an entry that is no directory
Probes ==
    [options : Options, result : FilePaths,
     stats : SUBSET (Predicates \ {"isDirectory"})]

NoProbe == [options |-> [given |-> "absent", depth |-> 0], result |-> <<>>,
            stats |-> {}]

VARIABLES
    version,    \* the version of the file that runs
    probe,      \* the inputs of a unit run, NoProbe in a session
    kind,       \* the tree: kind[p] of every path of the skeleton
    roots,      \* the argument of walk()
    cfgDepth,   \* this.depth as the constructor set it
    pc,         \* "new" before walk(), "walking" after
    depth,      \* this.depth
    walked,     \* this.walked, as a bag: the code reads no order from it
    levels,     \* the _walkEach invocations: id -> [pending, callback], with
                \* skips (the paths it found in this.walked) and returned
                \* (the calls of its callback) as history
    reads,      \* bag of the fs.readdir calls outstanding: [directory, callback, lvl]
    frames,     \* the _statEach invocations: id -> [directory, callback, pending, queue, ...]
    stats,      \* the fs.stat calls outstanding: [frame, path]
    emitted,    \* bag of the events emitted, 'done' excepted
    done,       \* the number of 'done' events emitted
    outAtDone,  \* the fs calls outstanding when 'done' was last emitted, -1 before
    late,       \* the number of events emitted after a 'done'
    issued,     \* bag of the fs.readdir calls issued: [directory, lvl]
    called,     \* bag of the directories whose _walk callback was called
    nfail       \* the number of injected failures

vars == <<version, probe, kind, roots, cfgDepth, pc, depth, walked, levels, reads,
          frames, stats, emitted, done, outAtDone, late, issued, called, nfail>>

\* the part of the state the Walker's code changes, as one record
Cur ==
    [depth |-> depth, walked |-> walked, levels |-> levels, reads |-> reads,
     frames |-> frames, stats |-> stats, emitted |-> emitted, done |-> done,
     outAtDone |-> outAtDone, late |-> late, issued |-> issued,
     called |-> called]

Becomes(st) ==
    /\ depth' = st.depth
    /\ walked' = st.walked
    /\ levels' = st.levels
    /\ reads' = st.reads
    /\ frames' = st.frames
    /\ stats' = st.stats
    /\ emitted' = st.emitted
    /\ done' = st.done
    /\ outAtDone' = st.outAtDone
    /\ late' = st.late
    /\ issued' = st.issued
    /\ called' = st.called

\* ------------------------------------------------------------ constructor
\* this.depth = options && options.depth >= 0 ? options.depth : 10
\* a constructor that takes a depth of 0 for no depth
WalkerTruthy(opts) ==
    IF opts.given = "depth" /\ opts.depth > 0 THEN opts.depth ELSE DefaultDepth

Walker(opts) ==
    IF opts.given = "depth" /\ opts.depth >= 0 THEN opts.depth ELSE DefaultDepth

\* this.types
types ==
    [block |-> "isBlockDevice", character |-> "isCharacterDevice",
     dir |-> "isDirectory", fifo |-> "isFIFO", file |-> "isFile",
     socket |-> "isSocket"]

\* Object.keys(self.types)
TypeKeys == <<"block", "character", "dir", "fifo", "file", "socket">>

\* the predicates of fs.Stats that hold of an entry of kind k
StatsOf(k) ==
    IF k = "dir" THEN {"isDirectory"} ELSE IF k = "file" THEN {"isFile"} ELSE {}

\* ----------------------------------------------------------------- events
Event(key, path, syscall) == [key |-> key, path |-> path, syscall |-> syscall]

emit(st, key, path, syscall) ==
    [st EXCEPT !.emitted = @ (+) SetToBag({Event(key, path, syscall)}),
               !.late = IF st.done > 0 THEN @ + 1 ELSE @]

Outstanding(st) == BagCardinality(st.reads) + Cardinality(st.stats)

\* self.emit('done')
emitDone(st) ==
    [st EXCEPT !.done = @ + 1, !.outAtDone = Outstanding(st)]

\* ------------------------------------------------------- closures
\* A _statEach invocation (a frame) is named by its directory and the number
\* of earlier invocations for that directory.  A _walkEach invocation (a
\* level) is named by the frame that made it, the one walk() makes by
\* RootLevel.  A callback is WalkCallback, the function walk() hands to
\* _walkEach, or the name of the level whose function(){ pending -= 1 ... }
\* it is.
RootLevel == <<<<>>, 0>>
WalkCallback == <<<<>>, -1>>

FrameId(st, directory) ==
    <<directory, Cardinality({k \in DOMAIN st.frames : k[1] = directory})>>

\* history: the callback handed to _walk for directory is being called
returns(st, directory) == [st EXCEPT !.called = @ (+) SetToBag({directory})]

\* history: level L calls its callback, which is the one of the directory
\* whose _statEach made L, or the one of walk()
levelReturns(st, L) == IF L = RootLevel THEN st ELSE returns(st, L[1])

\* the callback _walkEach hands to _walk, and the one of walk()
RECURSIVE call(_, _)
call(st, cb) ==
    IF cb = WalkCallback THEN emitDone(st)
    ELSE LET p == st.levels[cb].pending - 1
             st1 == [st EXCEPT !.levels[cb].pending = p]
             st2 == [st1 EXCEPT !.levels[cb].returned = @ + 1]
         IN IF p = 0 THEN call(levelReturns(st2, cb), st.levels[cb].callback)
            ELSE st1

\* _walk with the callback called for a directory already walked
_walkCallsBack(st, directory, cb, lvl) ==
    IF BagIn(directory, st.walked)
    THEN call(returns(st, directory), cb)
    ELSE [st EXCEPT
            !.walked = @ (+) SetToBag({directory}),
            !.reads = @ (+) SetToBag({[directory |-> directory, callback |-> cb,
                                       lvl |-> lvl]}),
            !.issued = @ (+) SetToBag({[directory |-> directory, lvl |-> lvl]})]

\* _walk without the test of this.walked
_walkNoCheck(st, directory, cb, lvl) ==
    [st EXCEPT
        !.walked = @ (+) SetToBag({directory}),
        !.reads = @ (+) SetToBag({[directory |-> directory, callback |-> cb,
                                   lvl |-> lvl]}),
        !.issued = @ (+) SetToBag({[directory |-> directory, lvl |-> lvl]})]

\* _walk without `self.walked.push(directory)`
_walkNoPush(st, directory, cb, lvl) ==
    IF BagIn(directory, st.walked)
    THEN [st EXCEPT !.levels[cb].skips = @ + 1]
    ELSE [st EXCEPT
            !.reads = @ (+) SetToBag({[directory |-> directory, callback |-> cb,
                                       lvl |-> lvl]}),
            !.issued = @ (+) SetToBag({[directory |-> directory, lvl |-> lvl]})]

\* _walk(directory, callback); lvl is the distance of directory from its root.
\* For a directory already walked ftw.js has `return callback;` and part_003
\* `return callback();`.  In part_002 lvl is the parameter depth, and
\* _walk(directory, depth, callback) starts with the test of the depth.
_walk(st, directory, cb, lvl) ==
    IF version = "part_002" /\ lvl > st.depth
    THEN call(returns(st, directory), cb)
    ELSE IF BagIn(directory, st.walked)
    THEN LET st1 == [st EXCEPT !.levels[cb].skips = @ + 1]
         IN IF version = "part_003" THEN call(returns(st1, directory), cb) ELSE st1
    ELSE [st EXCEPT
            !.walked = @ (+) SetToBag({directory}),
            !.reads = @ (+) SetToBag({[directory |-> directory, callback |-> cb,
                                       lvl |-> lvl]}),
            !.issued = @ (+) SetToBag({[directory |-> directory, lvl |-> lvl]})]

\* directories.forEach of _walkEach, from index i on: `pending += 1` comes
\* after the call of _walk, in part_002 before it
RECURSIVE walkLoop(_, _, _, _, _)
walkLoop(st, directories, i, L, lvl) ==
    IF i > Len(directories) THEN st
    ELSE IF version = "part_002"
    THEN LET st1 == [st EXCEPT !.levels[L].pending = @ + 1]
             st2 == _walk(st1, directories[i], L, lvl)
         IN walkLoop(st2, directories, i + 1, L, lvl)
    ELSE LET st1 == _walk(st, directories[i], L, lvl)
             st2 == [st1 EXCEPT !.levels[L].pending = @ + 1]
         IN walkLoop(st2, directories, i + 1, L, lvl)

\* _walkEach without self.depth -= 1
_walkEachNoDecrement(st, directories, callback, L, lvl) ==
    IF st.depth < 0 THEN call(levelReturns(st, L), callback)
    ELSE LET st1 == [st EXCEPT
                        !.levels = (L :> [pending |-> 0, callback |-> callback,
                                             skips |-> 0, returned |-> 0])
                                      @@ @]
         IN walkLoop(st1, directories, 1, L, lvl)

\* _walkEach with self.depth <= 0 for self.depth < 0
_walkEachOffByOne(st, directories, callback, L, lvl) ==
    IF st.depth <= 0 THEN call(levelReturns(st, L), callback)
    ELSE LET st1 == [st EXCEPT
                        !.depth = @ - 1,
                        !.levels = (L :> [pending |-> 0, callback |-> callback,
                                             skips |-> 0, returned |-> 0])
                                      @@ @]
         IN walkLoop(st1, directories, 1, L, lvl)

\* _walkEach(directories, callback), as level L; in part_002
\* _walkEach(directories, depth, callback), which leaves this.depth alone
_walkEach(st, directories, callback, L, lvl) ==
    IF version = "part_002"
    THEN LET st1 == [st EXCEPT
                        !.levels = (L :> [pending |-> 0, callback |-> callback,
                                             skips |-> 0, returned |-> 0])
                                      @@ @]
         IN walkLoop(st1, directories, 1, L, lvl)
    ELSE IF st.depth < 0 THEN call(levelReturns(st, L), callback)
    ELSE LET st1 == [st EXCEPT
                        !.depth = @ - 1,
                        !.levels = (L :> [pending |-> 0, callback |-> callback,
                                             skips |-> 0, returned |-> 0])
                                      @@ @]
         IN walkLoop(st1, directories, 1, L, lvl)

\* walk(directories)
walk(st, directories) == _walkEach(st, directories, WalkCallback, RootLevel, 0)

\* _emitTypes that stops at the first type that holds
RECURSIVE _emitTypesFirst(_, _, _, _)
_emitTypesFirst(st, result, statsOf, i) ==
    IF i > Len(TypeKeys) THEN st
    ELSE LET key == TypeKeys[i]
         IN IF types[key] \in statsOf THEN emit(st, key, result, "")
            ELSE _emitTypesFirst(st, result, statsOf, i + 1)

\* _emitTypes(result, stats), from key i of Object.keys(self.types) on
RECURSIVE _emitTypes(_, _, _, _)
_emitTypes(st, result, statsOf, i) ==
    IF i > Len(TypeKeys) THEN st
    ELSE LET key == TypeKeys[i]
             st1 == IF types[key] \in statsOf THEN emit(st, key, result, "") ELSE st
         IN _emitTypes(st1, result, statsOf, i + 1)

\* fs.readdir's results for a directory that is there
Listing(directory) ==
    SelectSeq(Names, LAMBDA n :
        Append(directory, n) \in Skeleton /\ kind[Append(directory, n)] # "none")

\* results.forEach of _statEach, from index i on: path.join and fs.stat
RECURSIVE statLoop(_, _, _, _, _)
statLoop(st, results, directory, F, i) ==
    IF i > Len(results) THEN st
    ELSE LET result == Append(directory, results[i])
             st1 == [st EXCEPT
                        !.frames[F].pending = @ + 1,
                        !.frames[F].listed = @ \cup {result},
                        !.stats = @ \cup {[frame |-> F, path |-> result]}]
         IN statLoop(st1, results, directory, F, i + 1)

\* _statEach(results, directory, callback).  Of a frame, listed (the entries
\* of the listing), statted (the entries whose stat succeeded), failed (the
\* entries whose stat failed), queued (the entries ever queued), settled
\* (every stat has called back) and depthLeft (this.depth at that moment)
\* are history.
_statEach(st, results, directory, callback, lvl) ==
    LET F == FrameId(st, directory)
        st1 == [st EXCEPT !.frames = (F :>
                    [directory |-> directory, callback |-> callback, lvl |-> lvl,
                     pending |-> 0, queue |-> <<>>, listed |-> {}, statted |-> {},
                     failed |-> {}, queued |-> {},
                     settled |-> FALSE, depthLeft |-> 0]) @@ @]
    IN statLoop(st1, results, directory, F, 1)

\* the callback of fs.readdir in _walk
\* a callback of fs.readdir that reports the directory before it looks at the
\* error
readdirCallbackEarly(st, r, error) ==
    LET st1 == emit(st, "directory", r.directory, "")
    IN IF error
       THEN call(returns(emit(st1, "error", r.directory, "readdir"), r.directory),
                 r.callback)
       ELSE _statEach(st1, Listing(r.directory), r.directory, r.callback, r.lvl)

readdirCallback(st, r, error) ==
    IF error
    THEN call(returns(emit(st, "error", r.directory, "readdir"), r.directory),
              r.callback)
    ELSE _statEach(emit(st, "directory", r.directory, ""),
                   Listing(r.directory), r.directory, r.callback, r.lvl)

\* a callback of fs.stat that keeps a failure to itself
statCallbackSilent(st, s, error) ==
    LET F == s.frame
        p == st.frames[F].pending - 1
        st1 == [st EXCEPT
                   !.frames[F].pending = p,
                   !.frames[F].settled = (p = 0),
                   !.frames[F].depthLeft = IF p = 0 THEN st.depth ELSE @,
                   !.frames[F].queue = IF p = 0 /\ error THEN <<>> ELSE @]
        callback == st.frames[F].callback
    IN IF error
       THEN call(returns([st1 EXCEPT !.frames[F].failed = @ \cup {s.path}], F[1]),
                 callback)
       ELSE LET st1a == [st1 EXCEPT !.frames[F].statted = @ \cup {s.path}]
                st2 == IF "isDirectory" \in StatsOf(kind[s.path])
                       THEN [st1a EXCEPT !.frames[F].queue = Append(@, s.path),
                                         !.frames[F].queued = @ \cup {s.path}]
                       ELSE _emitTypes(st1a, s.path, StatsOf(kind[s.path]), 1)
                queue == st2.frames[F].queue
                st3 == [st2 EXCEPT !.frames[F].queue = <<>>]
            IN IF p = 0
               THEN IF Len(queue) = 0
                    THEN call(returns(st3, F[1]), callback)
                    ELSE _walkEach(st3, queue, callback, F, st3.frames[F].lvl + 1)
               ELSE st2

\* a callback of fs.stat that walks the queue without waiting for the last
\* stat of the directory
statCallbackEager(st, s, error) ==
    LET F == s.frame
        p == st.frames[F].pending - 1
        st1 == [st EXCEPT
                   !.frames[F].pending = p,
                   !.frames[F].settled = (p = 0),
                   !.frames[F].depthLeft = IF p = 0 THEN st.depth ELSE @,
                   !.frames[F].queue = IF p = 0 /\ error THEN <<>> ELSE @]
        callback == st.frames[F].callback
    IN IF error
       THEN call(returns(emit([st1 EXCEPT !.frames[F].failed = @ \cup {s.path}],
                              "error", s.path, "stat"), F[1]), callback)
       ELSE LET st1a == [st1 EXCEPT !.frames[F].statted = @ \cup {s.path}]
                st2 == IF "isDirectory" \in StatsOf(kind[s.path])
                       THEN [st1a EXCEPT !.frames[F].queue = Append(@, s.path),
                                         !.frames[F].queued = @ \cup {s.path}]
                       ELSE _emitTypes(st1a, s.path, StatsOf(kind[s.path]), 1)
                queue == st2.frames[F].queue
                st3 == [st2 EXCEPT !.frames[F].queue = <<>>]
            IN IF Len(queue) = 0
               THEN IF p = 0 THEN call(returns(st3, F[1]), callback) ELSE st2
               ELSE _walkEach(st3, queue, callback, F, st3.frames[F].lvl + 1)

\* a callback of fs.stat that hands a directory to _emitTypes as well
statCallbackEmitsDir(st, s, error) ==
    LET F == s.frame
        p == st.frames[F].pending - 1
        st1 == [st EXCEPT
                   !.frames[F].pending = p,
                   !.frames[F].settled = (p = 0),
                   !.frames[F].depthLeft = IF p = 0 THEN st.depth ELSE @,
                   !.frames[F].queue = IF p = 0 /\ error THEN <<>> ELSE @]
        callback == st.frames[F].callback
    IN IF error
       THEN call(returns(emit([st1 EXCEPT !.frames[F].failed = @ \cup {s.path}],
                              "error", s.path, "stat"), F[1]), callback)
       ELSE LET st1a == [st1 EXCEPT !.frames[F].statted = @ \cup {s.path}]
                st1b == IF "isDirectory" \in StatsOf(kind[s.path])
                        THEN [st1a EXCEPT !.frames[F].queue = Append(@, s.path),
                                          !.frames[F].queued = @ \cup {s.path}]
                        ELSE st1a
                st2 == _emitTypes(st1b, s.path, StatsOf(kind[s.path]), 1)
                queue == st2.frames[F].queue
                st3 == [st2 EXCEPT !.frames[F].queue = <<>>]
            IN IF p = 0
               THEN IF Len(queue) = 0
                    THEN call(returns(st3, F[1]), callback)
                    ELSE _walkEach(st3, queue, callback, F, st3.frames[F].lvl + 1)
               ELSE st2

\* the callback of fs.stat in _statEach.  The queue of a frame is dropped
\* with the last callback of the frame: no code can reach it afterwards.
statCallback(st, s, error) ==
    LET F == s.frame
        p == st.frames[F].pending - 1
        st1 == [st EXCEPT
                   !.frames[F].pending = p,
                   !.frames[F].settled = (p = 0),
                   !.frames[F].depthLeft = IF p = 0 THEN st.depth ELSE @,
                   !.frames[F].queue = IF p = 0 /\ error THEN <<>> ELSE @]
        callback == st.frames[F].callback
    IN IF error
       THEN call(returns(emit([st1 EXCEPT !.frames[F].failed = @ \cup {s.path}],
                              "error", s.path, "stat"), F[1]), callback)
       ELSE LET st1a == [st1 EXCEPT !.frames[F].statted = @ \cup {s.path}]
                st2 == IF "isDirectory" \in StatsOf(kind[s.path])
                       THEN [st1a EXCEPT !.frames[F].queue = Append(@, s.path),
                                         !.frames[F].queued = @ \cup {s.path}]
                       ELSE _emitTypes(st1a, s.path, StatsOf(kind[s.path]), 1)
                queue == st2.frames[F].queue
                st3 == [st2 EXCEPT !.frames[F].queue = <<>>]
            IN IF p = 0
               THEN IF Len(queue) = 0
                    THEN call(returns(st3, F[1]), callback)
                    ELSE _walkEach(st3, queue, callback, F, st3.frames[F].lvl + 1)
               ELSE st2

\* ------------------------------------------------------- a reference run
\* the state of a Walker of this depth before walk()
Fresh ==
    [depth |-> cfgDepth, walked |-> EmptyBag, levels |-> <<>>, reads |-> EmptyBag,
     frames |-> <<>>, stats |-> {}, emitted |-> EmptyBag, done |-> 0,
     outAtDone |-> -1, late |-> 0, issued |-> EmptyBag, called |-> EmptyBag]

\* the session run to its end in one order of completion: the callback of an
\* outstanding fs.stat before that of an fs.readdir, and none with an error
\* but the readdir of a path that is no directory
RECURSIVE Settle(_)
Settle(st) ==
    IF st.stats # {}
    THEN LET s == CHOOSE x \in st.stats : TRUE
         IN Settle(statCallback([st EXCEPT !.stats = @ \ {s}], s, FALSE))
    ELSE IF st.reads # EmptyBag
    THEN LET r == CHOOSE x \in BagToSet(st.reads) : TRUE
         IN Settle(readdirCallback([st EXCEPT !.reads = @ (-) SetToBag({r})], r,
                                   kind[r.directory] # "dir"))
    ELSE st

\* ---------------------------------------------------------------- actions
Session ==
    /\ probe = NoProbe
    /\ kind \in Trees
    /\ roots \in RootLists
    /\ cfgDepth \in {Walker(o) : o \in Options}
    /\ pc = "new"
    /\ depth = cfgDepth
    /\ walked = EmptyBag
    /\ levels = <<>>
    /\ reads = EmptyBag
    /\ frames = <<>>
    /\ stats = {}
    /\ emitted = EmptyBag
    /\ done = 0
    /\ outAtDone = -1
    /\ late = 0
    /\ issued = EmptyBag
    /\ called = EmptyBag
    /\ nfail = 0

\* a Walker of src/ftw.js before walk()
Init == version = "ftw.js" /\ Session

\* a Walker of src/unnamed/part_003 before walk()
InitLib == version = "part_003" /\ Session

\* a Walker of src/unnamed/part_002 before walk()
InitParam == version = "part_002" /\ Session

\* walker.walk(roots)
Walk ==
    /\ pc = "new"
    /\ pc' = "walking"
    /\ Becomes(walk(Cur, roots))
    /\ UNCHANGED <<version, probe, kind, roots, cfgDepth, nfail>>

\* an outstanding fs.readdir calls back: with an error when the path is no
\* directory, or when the read fails
ReaddirDone ==
    \E r \in BagToSet(reads) :
        LET st == [Cur EXCEPT !.reads = @ (-) SetToBag({r})]
        IN \/ /\ kind[r.directory] = "dir"
              /\ Becomes(readdirCallback(st, r, FALSE))
              /\ UNCHANGED <<version, probe, kind, roots, cfgDepth, pc, nfail>>
           \/ /\ kind[r.directory] # "dir"
              /\ Becomes(readdirCallback(st, r, TRUE))
              /\ UNCHANGED <<version, probe, kind, roots, cfgDepth, pc, nfail>>
           \/ /\ kind[r.directory] = "dir"
              /\ nfail < MaxFail
              /\ nfail' = nfail + 1
              /\ Becomes(readdirCallback(st, r, TRUE))
              /\ UNCHANGED <<version, probe, kind, roots, cfgDepth, pc>>

\* an outstanding fs.stat calls back: with an error when the stat fails
StatDone ==
    \E s \in stats :
        LET st == [Cur EXCEPT !.stats = @ \ {s}]
        IN \/ /\ Becomes(statCallback(st, s, FALSE))
              /\ UNCHANGED <<version, probe, kind, roots, cfgDepth, pc, nfail>>
           \/ /\ nfail < MaxFail
              /\ nfail' = nfail + 1
              /\ Becomes(statCallback(st, s, TRUE))
              /\ UNCHANGED <<version, probe, kind, roots, cfgDepth, pc>>

Next == Walk \/ ReaddirDone \/ StatDone

Spec == Init /\ [][Next]_vars

SpecLib == InitLib /\ [][Next]_vars

SpecParam == InitParam /\ [][Next]_vars

\* ----------------------------------------------------------- unit runs
\* the inputs of `new Walker(options)` and of one _emitTypes call
InitUnit ==
    /\ version = "ftw.js"
    /\ probe \in Probes
    /\ kind = [p \in Skeleton |-> "none"]
    /\ roots = <<probe.result>>
    /\ cfgDepth = 0
    /\ pc = "start"
    /\ depth = 0
    /\ walked = EmptyBag
    /\ levels = <<>>
    /\ reads = EmptyBag
    /\ frames = <<>>
    /\ stats = {}
    /\ emitted = EmptyBag
    /\ done = 0
    /\ outAtDone = -1
    /\ late = 0
    /\ issued = EmptyBag
    /\ called = EmptyBag
    /\ nfail = 0

\* new Walker(options)
New ==
    /\ pc = "start"
    /\ pc' = "new"
    /\ cfgDepth' = Walker(probe.options)
    /\ depth' = Walker(probe.options)
    /\ UNCHANGED <<version, probe, kind, roots, walked, levels, reads, frames,
                   stats, emitted, done, outAtDone, late, issued, called, nfail>>

\* walker._emitTypes(result, stats)
EmitTypes ==
    /\ pc = "new"
    /\ pc' = "emitted"
    /\ Becomes(_emitTypes(Cur, probe.result, probe.stats, 1))
    /\ UNCHANGED <<version, probe, kind, roots, cfgDepth, nfail>>

NextUnit == New \/ EmitTypes

SpecUnit == InitUnit /\ [][NextUnit]_vars

\* ------------------------------------------------------------ vocabulary
IsPrefix(p, q) == Len(p) <= Len(q) /\ SubSeq(q, 1, Len(p)) = p

\* the events of one key and path
Count(key, path) == CopiesIn(Event(key, path, ""), emitted)
ErrorCount(path, syscall) == CopiesIn(Event("error", path, syscall), emitted)
Emitted(key) == {e.path : e \in {x \in BagToSet(emitted) : x.key = key}}

NoErrors == \A e \in BagToSet(emitted) : e.key # "error"

\* walk() was called and every fs call it led to has called back
Quiescent == pc = "walking" /\ reads = EmptyBag /\ stats = {}

\* the number of fs.readdir calls issued for a directory
ReadCount(d) ==
    LET S == {x \in BagToSet(issued) : x.directory = d}
        RECURSIVE Sum(_)
        Sum(T) == IF T = {} THEN 0
                  ELSE LET x == CHOOSE y \in T : TRUE
                       IN CopiesIn(x, issued) + Sum(T \ {x})
    IN Sum(S)

ExistingDirs == {d \in DirPaths : kind[d] = "dir"}
ExistingFiles == {f \in FilePaths : kind[f] = "file"}
FilesIn(d) == {f \in ExistingFiles : Parent(f) = d}
SubdirsIn(d) == {x \in ExistingDirs : Len(x) > 1 /\ Parent(x) = d}
FilesUnder(d) == {f \in ExistingFiles : IsPrefix(d, f)}
DirsUnder(d) == {x \in ExistingDirs : IsPrefix(d, x)}
Rootset == {roots[i] : i \in 1 .. Len(roots)}

\* the largest distance of a directory under d from d
Height(d) ==
    LET ds == {Len(x) - Len(d) : x \in DirsUnder(d)}
    IN CHOOSE h \in ds : \A k \in ds : k <= h

\* the directories at most cfgDepth below some root
InBudget ==
    {d \in ExistingDirs :
        \E i \in 1 .. Len(roots) :
            IsPrefix(roots[i], d) /\ Len(d) - Len(roots[i]) <= cfgDepth}

\* a _walk has found its path in this.walked
Skipped == \E L \in DOMAIN levels : levels[L].skips >= 1

\* the 'error' events
Errors == {e \in BagToSet(emitted) : e.key = "error"}

\* the directories of the frontier of a read: the roots for a root, the
\* subdirectories of the same parent below
Frontier(x) ==
    IF x.lvl = 0 THEN Rootset \cap ExistingDirs ELSE SubdirsIn(Parent(x.directory))

\* ----------------------------------------------------------------- claims

\* C1: a walk() on a fresh Walker emits 'done' at most once, for every tree,
\* root list, pattern of readdir and stat failures and order of completions.
C1_DoneAtMostOnce == done <= 1

\* 'done' was emitted in a session of two roots with a failed fs call
C1_Witness == done = 1 /\ Len(roots) = 2 /\ nfail >= 1 /\ Quiescent

\* C2: 'done' is emitted only when no readdir and no stat of the session is
\* outstanding, and no other event is emitted after 'done'.
C2_DoneAfterEverything == done > 0 => (outAtDone = 0 /\ late = 0)

\* C3: when every issued readdir and stat has called back, 'done' has been
\* emitted (with every fs call calling back eventually, 'done' is emitted
\* eventually), whether or not errors occurred.
C3_DoneWhenSettled == Quiescent => done >= 1

\* C4: with no I/O errors, the 'directory' events of a settled session are
\* those of the directories at most cfgDepth below some root, once each.
C4_DirectoriesInBudget ==
    (Quiescent /\ NoErrors) =>
        /\ Emitted("directory") = InBudget
        /\ \A d \in InBudget : Count("directory", d) = 1

\* C5: fs.readdir is issued at most once for a directory path, however often
\* the path is in the root list or is found below several roots.
C5_ReadAtMostOnce == \A d \in DirPaths : ReadCount(d) <= 1

\* a directory that is a root and was also queued by its parent was read once
C5_Witness ==
    /\ Quiescent
    /\ \E F \in DOMAIN frames :
        \E d \in frames[F].queued : d \in Rootset /\ ReadCount(d) = 1

\* C6: no fs.readdir is issued for a directory more than cfgDepth below its
\* root, so the reads are of at most cfgDepth + 1 levels.
C6_ReadsWithinDepth ==
    /\ \A x \in BagToSet(issued) : x.lvl <= cfgDepth
    /\ Cardinality({x.lvl : x \in BagToSet(issued)}) <= cfgDepth + 1

\* a directory at the depth limit found subdirectories, which were not read
C6_Witness ==
    \E F \in DOMAIN frames :
        /\ frames[F].settled
        /\ frames[F].lvl = cfgDepth
        /\ frames[F].queued # {}
        /\ \A d \in frames[F].queued : ReadCount(d) = 0

\* C7: with depth 0, one root directory that holds files and subdirectories
\* and no I/O errors: 'done' is emitted, the 'file' events before it are the
\* files directly in the root, once each, and there is no readdir and no
\* 'directory' event for a subdirectory and no 'file' event for a file below.
C7_Case ==
    /\ cfgDepth = 0
    /\ Len(roots) = 1
    /\ kind[roots[1]] = "dir"
    /\ FilesIn(roots[1]) # {}
    /\ SubdirsIn(roots[1]) # {}
    /\ NoErrors

C7_DepthZero ==
    C7_Case =>
        /\ \A x \in BagToSet(issued) : x.directory = roots[1]
        /\ Emitted("directory") \subseteq {roots[1]}
        /\ Emitted("file") \subseteq FilesIn(roots[1])
        /\ \A f \in FilesIn(roots[1]) : Count("file", f) <= 1
        /\ (done >= 1 => done = 1 /\ late = 0 /\ Emitted("file") = FilesIn(roots[1]))
        /\ (Quiescent => done = 1)

\* 'done' after a walk of depth 0 of a root with two subdirectories, one of
\* them holding a file
C7_Witness ==
    /\ C7_Case
    /\ done = 1
    /\ Cardinality(SubdirsIn(roots[1])) = 2
    /\ \E d \in SubdirsIn(roots[1]) : FilesIn(d) # {}

\* C8: with no I/O errors and one root whose tree is no higher than cfgDepth,
\* 'done' is emitted and the 'file' events are then the regular files of the
\* whole tree, once each.
C8_AllFiles ==
    (Quiescent /\ NoErrors /\ Len(roots) = 1 /\ kind[roots[1]] = "dir"
        /\ Height(roots[1]) <= cfgDepth) =>
        /\ done = 1
        /\ Emitted("file") = FilesUnder(roots[1])
        /\ \A f \in FilesUnder(roots[1]) : Count("file", f) = 1

\* C9: with a directory and one of its descendants in the root list, no I/O
\* errors and the tree no higher than cfgDepth, the nested root is read once
\* and the 'file' events of the settled session are the files under the outer
\* root, once each.
C9_NestedRoot ==
    \A i, j \in 1 .. Len(roots) :
        (/\ roots[i] # roots[j]
         /\ IsPrefix(roots[i], roots[j])
         /\ kind[roots[j]] = "dir"
         /\ Height(roots[i]) <= cfgDepth
         /\ NoErrors
         /\ Quiescent) =>
            /\ ReadCount(roots[j]) = 1
            /\ Emitted("file") = FilesUnder(roots[i])
            /\ \A f \in FilesUnder(roots[i]) : Count("file", f) = 1

\* C10: an entry whose stat fails gets one 'error', no type event and no
\* place in the queue, and the subdirectories of the same directory whose
\* stat succeeded are read all the same, if depth remained when the last
\* stat of the directory called back, in whatever order the stats complete.
C10_StatFailure ==
    \A F \in DOMAIN frames :
        \A p \in frames[F].failed :
            /\ ErrorCount(p, "stat") = 1
            /\ \A i \in 1 .. Len(TypeKeys) : Count(TypeKeys[i], p) = 0
            /\ p \notin frames[F].queued
            /\ (frames[F].settled /\ frames[F].depthLeft >= 0 =>
                    \A q \in frames[F].queued : ReadCount(q) >= 1)

\* C11: a failed readdir of a directory emits one 'error' and leads to no
\* stat of an entry; when it is the only failure of the session, every other
\* directory of the same frontier and every directory below one of them
\* within the depth limit has its 'directory' event once the session has
\* settled, and 'done' was emitted.
C11_ReaddirFailure ==
    \A x \in BagToSet(issued) :
        LET p == x.directory
        IN ErrorCount(p, "readdir") >= 1 =>
            /\ ErrorCount(p, "readdir") = 1
            /\ \A F \in DOMAIN frames : F[1] # p
            /\ (Quiescent /\ Errors = {Event("error", p, "readdir")} =>
                    /\ done = 1
                    /\ \A q \in Frontier(x) \ {p} :
                        \A d \in DirsUnder(q) :
                            (~IsPrefix(p, d) /\ x.lvl + Len(d) - Len(q) <= cfgDepth)
                                => Count("directory", d) = 1)

\* C12: when the readdir of every root fails, a settled session has one
\* 'error' for each root, no 'file' and no 'directory' event, and one 'done'
\* after the last of the errors.
C12_AllRootsFail ==
    (Quiescent /\ \A i \in 1 .. Len(roots) : ErrorCount(roots[i], "readdir") >= 1) =>
        /\ \A i \in 1 .. Len(roots) : ErrorCount(roots[i], "readdir") = 1
        /\ Emitted("file") = {}
        /\ Emitted("directory") = {}
        /\ done = 1
        /\ late = 0

\* the keys of the events for entries that are no directories
TerminalKeys == {"block", "character", "fifo", "file", "socket"}

\* C13: an event of a terminal type for a path is emitted only after a stat
\* of that path succeeded; the 'error' events of stat for a path are as many
\* as the stats of it that failed; and every entry of a listing has its stat
\* outstanding, or a type event, or an 'error', or was queued as a directory.
C13_StatBeforeType ==
    /\ \A e \in BagToSet(emitted) :
          e.key \in TerminalKeys =>
              \E F \in DOMAIN frames : e.path \in frames[F].statted
    /\ \A p \in Skeleton :
          ErrorCount(p, "stat") =
              Cardinality({F \in DOMAIN frames : p \in frames[F].failed})
    /\ \A F \in DOMAIN frames :
          \A e \in frames[F].listed :
              \/ [frame |-> F, path |-> e] \in stats
              \/ \E k \in TerminalKeys : Count(k, e) >= 1
              \/ ErrorCount(e, "stat") >= 1
              \/ e \in frames[F].queued

\* the stats of a directory have all called back: one failed, one was of a
\* file and one of a subdirectory
C13_Witness ==
    \E F \in DOMAIN frames :
        /\ frames[F].settled
        /\ frames[F].failed # {}
        /\ frames[F].queued # {}
        /\ \E e \in frames[F].statted : Count("file", e) = 1

\* the fs.readdir calls that a step issues
Issues == {x \in BagToSet(issued') : CopiesIn(x, issued') > CopiesIn(x, issued)}

ReadsOutstanding(d) ==
    Cardinality({r \in BagToSet(reads) : r.directory = d})

\* C15: the 'directory' events for a path are as many as the readdirs of it
\* that succeeded: every readdir issued for it is outstanding or has led to
\* one 'directory' or to one 'error', so there is none for a path whose
\* readdir failed or that was never read (found in this.walked, or beyond the
\* depth limit); and a type event for an entry comes after the 'directory'
\* event of the directory that lists it.
C15_DirectoryEvents ==
    /\ \A p \in DirPaths :
          /\ Count("directory", p) =
                Cardinality({F \in DOMAIN frames : F[1] = p})
          /\ Count("directory", p) + ErrorCount(p, "readdir") + ReadsOutstanding(p)
                = ReadCount(p)
    /\ \A e \in BagToSet(emitted) :
          e.key \in TerminalKeys => Count("directory", Parent(e.path)) >= 1

\* a root was read and reported with a file of it, the readdir of another
\* root failed, a path was found in this.walked, and a directory was queued
\* and never read
C15_Witness ==
    /\ Quiescent
    /\ Skipped
    /\ \E p \in Rootset : ErrorCount(p, "readdir") = 1 /\ Count("directory", p) = 0
    /\ \E p \in Rootset : Count("directory", p) = 1 /\ \E f \in FilesIn(p) : Count("file", f) = 1
    /\ \E F \in DOMAIN frames :
          \E d \in frames[F].queued : ReadCount(d) = 0 /\ Count("directory", d) = 0

\* C16: after every step, a path for which fs.readdir was issued (outstanding
\* or called back) is in this.walked, no path is in this.walked twice, and
\* no path has left this.walked in the step.
C16_VisitedSet ==
    [][/\ \A x \in BagToSet(issued') : BagIn(x.directory, walked')
       /\ \A d \in DirPaths :
             /\ CopiesIn(d, walked') <= 1
             /\ CopiesIn(d, walked) <= CopiesIn(d, walked')]_vars

\* one readdir is outstanding and another has called back, both paths are in
\* this.walked, and a path was found there by a later _walk
C16_Witness ==
    /\ Skipped
    /\ \E r \in BagToSet(reads) : BagIn(r.directory, walked)
    /\ \E F \in DOMAIN frames : BagIn(F[1], walked)
    /\ Cardinality(BagToSet(walked)) >= 2

\* C17: _emitTypes(result, stats) for an entry that is no directory emits one
\* event of every type whose predicate holds of stats and none of a type
\* whose predicate does not hold, however many predicates hold.
C17_EmitTypes ==
    pc = "emitted" =>
        \A i \in 1 .. Len(TypeKeys) :
            Count(TypeKeys[i], probe.result) =
                IF types[TypeKeys[i]] \in probe.stats THEN 1 ELSE 0

\* _emitTypes has run for stats of which two predicates hold, and one event of
\* each of the two types was emitted
C17_Witness ==
    /\ pc = "emitted"
    /\ probe.stats = {"isFile", "isSocket"}
    /\ Count("file", probe.result) = 1
    /\ Count("socket", probe.result) = 1

\* C18: this.depth of a new Walker is options.depth when that is an integer
\* of 0 or more, and the default of 10 when there are no options, when the
\* options have no depth and when the depth is negative.
C18_ConfiguredDepth ==
    pc = "new" =>
        LET o == probe.options
        IN /\ depth = cfgDepth
           /\ (o.given = "depth" /\ o.depth >= 0 => depth = o.depth)
           /\ (o.given = "depth" /\ o.depth < 0 => depth = DefaultDepth)
           /\ (o.given = "nodepth" => depth = DefaultDepth)
           /\ (o.given = "absent" => depth = DefaultDepth)

\* a Walker made with the options {depth: 0}
C18_Witness ==
    pc = "new" /\ probe.options.given = "depth" /\ probe.options.depth = 0
        /\ depth = 0

\* C19: a level that found one of its paths in this.walked (the root list or
\* a queue) calls its callback once at most, only when none of its
\* directories is pending, and has called it once when the session has
\* settled; and the same holds of 'done' in such a session.
C19_DuplicateSettles ==
    \A L \in DOMAIN levels :
        levels[L].skips >= 1 =>
            /\ levels[L].returned <= 1
            /\ (levels[L].returned >= 1 => levels[L].pending = 0)
            /\ (Quiescent => levels[L].returned = 1)
            /\ done <= 1
            /\ (done >= 1 => outAtDone = 0)
            /\ (Quiescent => done = 1)

\* C20: a directory whose readdir succeeded with an empty listing has had its
\* callback called once, and a settled session that read such a directory
\* has emitted 'done'.
C20_EmptyDirectory ==
    \A F \in DOMAIN frames :
        frames[F].listed = {} =>
            /\ CopiesIn(F[1], called) = 1
            /\ (Quiescent => done = 1)

\* C21: the callback handed to _walk for a directory is called once at most
\* in a session, also when a stat of one of its entries fails while other
\* stats of the directory are outstanding, and the pending counter of no
\* _walkEach is below 0.
C21_CallbackOnce ==
    /\ \A d \in DirPaths : CopiesIn(d, called) <= 1
    /\ \A L \in DOMAIN levels : levels[L].pending >= 0

\* C22: with no I/O errors, the directories read and the 'file' events of a
\* settled session are those of the session of the same tree, root list and
\* depth whose callbacks run in the order of Settle: they do not depend on
\* the order in which the readdirs and stats complete.
C22_OrderIndependent ==
    (Quiescent /\ NoErrors) =>
        LET ref == Settle(walk(Fresh, roots))
        IN /\ {x.directory : x \in BagToSet(issued)}
                = {x.directory : x \in BagToSet(ref.issued)}
           /\ Emitted("file")
                = {e.path : e \in {x \in BagToSet(ref.emitted) : x.key = "file"}}

\* the events that name a path, of any key
EventsFor(path) == {e \in BagToSet(emitted) : e.path = path}

C24_DepthSkipOnce ==
    \A F \in DOMAIN frames :
        (/\ frames[F].lvl = cfgDepth
         /\ frames[F].settled
         /\ frames[F].failed = {}
         /\ Cardinality(frames[F].queued) >= 2) =>
            /\ CopiesIn(F[1], called) = 1
            /\ (done >= 1 => outAtDone = 0)

====
